---- MODULE Spec2Model ----
(***************************************************************************)
(* Model of backend/main.py: a FastAPI service that keeps chat             *)
(* conversations as points of one Qdrant collection.                       *)
(*                                                                         *)
(* Strings that the code takes apart or orders are sequences: a message    *)
(* content and a title are sequences of one-character strings, a timestamp *)
(* produced by datetime.isoformat() is the sequence of its numeric fields  *)
(* (seconds, then microseconds when they are not zero), compared           *)
(* lexicographically as Python compares the strings.  Optional[str] is     *)
(* None (the empty tuple) or Some(s) (a one-element tuple).                *)
(*                                                                         *)
(* The handlers are `async def` without any await and call a synchronous   *)
(* client, so inside one server process each handler runs to completion    *)
(* before the next starts: Spec has one atomic action per handler.         *)
(* SpecTwoUpdates models two server processes sharing the collection,      *)
(* where the store read and the store write of update_conversation are     *)
(* separate steps.                                                         *)
(*                                                                         *)
(* The Qdrant client is an external library.  A call that raises is taken  *)
(* to have had no effect on the collection (single-point operations are    *)
(* atomic).  The vector of a point is never read back (with_vectors is     *)
(* off, retrieve does not ask for it) and is not part of the state here.   *)
(***************************************************************************)
EXTENDS Integers, Sequences, FiniteSets, TLC

VARIABLES
    collection,   \* the Qdrant collection: point id -> point
    clock,        \* datetime.utcnow(), in microseconds
    resp,         \* per server process, the answer to its latest request
    pc,           \* per server process, where its request stands
    loc,          \* per server process, the locals of its request
    last_write,   \* bookkeeping: the latest write that succeeded
    baseline      \* bookkeeping: the collection the run started from

vars == <<collection, clock, resp, pc, loc, last_write, baseline>>

(* ------------------------------ bounds -------------------------------- *)
MaxId == 2
MaxTicks == 1
MaxLimit == 2

Ids == 1..MaxId
Users == {"u1", "u2"}
Limits == 1..MaxLimit
Workers == {1, 2}

(* ------------------------------ values -------------------------------- *)
None == <<>>
Some(x) == <<x>>

Min(a, b) == IF a < b THEN a ELSE b

\* Python truthiness of an Optional[str]: None and "" are falsy.
Truthy(opt) == opt # None /\ opt[1] # <<>>

Message(id, role, content, timestamp) ==
    [id |-> id, role |-> role, content |-> content, timestamp |-> timestamp]

MsgA == Message(1, "user", <<"h", "i">>, "2024-01-01T00:00:00")
MsgB == Message(2, "assistant",
                <<"a", " ", "b", " ", "c", " ", "d", " ", "e", " ", "f", " ", "g">>,
                "2024-01-01T00:00:01")

\* msg.dict(): the fields of the pydantic model as a plain dict.
dict(msg) ==
    [id |-> msg.id, role |-> msg.role, content |-> msg.content,
     timestamp |-> msg.timestamp]

dicts(messages) == [i \in 1..Len(messages) |-> dict(messages[i])]

(* --------------------------- generate_title --------------------------- *)
IsSpace(c) == c \in {" ", "\t", "\n"}

\* str.split(): the maximal runs of non-whitespace characters.
RECURSIVE SplitFrom(_, _, _, _)
SplitFrom(s, i, cur, acc) ==
    IF i > Len(s)
    THEN IF cur = <<>> THEN acc ELSE Append(acc, cur)
    ELSE IF IsSpace(s[i])
         THEN SplitFrom(s, i + 1, <<>>, IF cur = <<>> THEN acc ELSE Append(acc, cur))
         ELSE SplitFrom(s, i + 1, Append(cur, s[i]), acc)

split(s) == SplitFrom(s, 1, <<>>, <<>>)

\* " ".join(words)
RECURSIVE join(_)
join(words) ==
    IF words = <<>> THEN <<>>
    ELSE IF Len(words) = 1 THEN words[1]
    ELSE words[1] \o <<" ">> \o join(Tail(words))

\* Mutant: the ellipsis is appended from six words on.
generate_title_ellipsis_at_six(first_message) ==
    LET all == split(first_message)
        words == SubSeq(all, 1, Min(6, Len(all)))
    IN join(words) \o (IF Len(all) >= 6 THEN <<".", ".", ".">> ELSE <<>>)

generate_title(first_message) ==
    LET all == split(first_message)
        words == SubSeq(all, 1, Min(6, Len(all)))
    IN join(words) \o (IF Len(all) > 6 THEN <<".", ".", ".">> ELSE <<>>)

(* ------------------------------ the clock ----------------------------- *)
\* datetime.isoformat(): the microseconds are left out when they are zero.
isoformat(t) ==
    IF t % 1000000 = 0 THEN <<t \div 1000000>>
    ELSE <<t \div 1000000, t % 1000000>>

\* Python's < on the two strings.
RECURSIVE StrLess(_, _)
StrLess(a, b) ==
    IF b = <<>> THEN FALSE
    ELSE IF a = <<>> THEN TRUE
    ELSE IF a[1] # b[1] THEN a[1] < b[1]
    ELSE StrLess(Tail(a), Tail(b))

(* ------------------------------ the store ----------------------------- *)
PointStruct(id, payload) == [id |-> id, payload |-> payload]

Empty == [k \in {} |-> PointStruct(0, <<>>)]

\* Mutant: a point that is present is kept, only a new id is inserted.
upsert_if_absent(coll, point) ==
    [k \in DOMAIN coll \cup {point.id} |->
       IF k \in DOMAIN coll THEN coll[k] ELSE point]

\* client.upsert(points=[point]): insert or replace the point of that id.
upsert(coll, point) ==
    [k \in DOMAIN coll \cup {point.id} |-> IF k = point.id THEN point ELSE coll[k]]

\* client.retrieve(ids=[id]): the list of the points found.
retrieve(coll, id) == IF id \in DOMAIN coll THEN <<coll[id]>> ELSE <<>>

\* client.delete(points_selector=[id])
delete(coll, id) == [k \in DOMAIN coll \ {id} |-> coll[k]]

\* client.scroll(limit=limit)[0]: at most `limit` points, each once, in the
\* order the store chooses.
\* Mutant: the scan returns every point, whatever the limit.
scroll_unlimited(coll, limit) ==
    LET n == Cardinality(DOMAIN coll)
    IN { [i \in 1..n |-> coll[ks[i]]] :
           ks \in { f \in [1..n -> DOMAIN coll] :
                      \A i, j \in 1..n : i # j => f[i] # f[j] } }

scroll(coll, limit) ==
    LET n == Min(limit, Cardinality(DOMAIN coll))
    IN { [i \in 1..n |-> coll[ks[i]]] :
           ks \in { f \in [1..n -> DOMAIN coll] :
                      \A i, j \in 1..n : i # j => f[i] # f[j] } }

(* ----------------------------- exceptions ----------------------------- *)
HTTPException(status_code, detail) ==
    [type |-> "HTTPException", status_code |-> status_code, detail |-> detail]

\* What a failing client call raises.
StoreError == [type |-> "Exception", args |-> <<"store unavailable">>]

\* str(e); an HTTPException prints as "<status_code>: <detail>".
str(e) ==
    IF e.type = "HTTPException"
    THEN <<ToString(e.status_code), ": ">> \o e.detail
    ELSE e.args

\* `except Exception as e: raise HTTPException(500, f"<prefix>{str(e)}")`.
\* HTTPException is itself a subclass of Exception.
except_Exception(prefix, e) == HTTPException(500, <<prefix>> \o str(e))

NotFound == HTTPException(404, <<"Conversation not found">>)

(* ----------------------------- responses ------------------------------ *)
\* What a handler hands back, with the request it answers (an error of a
\* handler other than get_conversation is kept with the operation alone).
\* `path` (which line ended the request), `found`
\* (what the ownership check met) and `writes` (the write calls issued) are
\* bookkeeping, not program state.
Request(op, user_id, id, arg) ==
    [op |-> op, user_id |-> user_id, id |-> id, arg |-> arg]

Returned(req, body, found, writes) ==
    [req |-> req, status_code |-> 200, detail |-> <<>>, body |-> body,
     path |-> "ok", found |-> found, writes |-> writes]

Raised(req, e, path, found, writes) ==
    [req |-> req, status_code |-> e.status_code, detail |-> e.detail,
     body |-> <<>>, path |-> path, found |-> found, writes |-> writes]

NoResponse ==
    [req |-> Request("none", "", 0, <<>>), status_code |-> 0, detail |-> <<>>,
     body |-> <<>>, path |-> "none", found |-> "n/a", writes |-> 0]

Result(coll, r) == [collection |-> coll, resp |-> r]

\* Mutant: the ownership check left out, only absence is refused.
ownership_fails_absent_only(point, user_id) == point = <<>>

\* `not point or point[0].payload.get("user_id") != user_id`
ownership_fails(point, user_id) ==
    point = <<>> \/ point[1].payload.user_id # user_id

Found(point, user_id) ==
    IF point = <<>> THEN "absent"
    ELSE IF point[1].payload.user_id # user_id THEN "foreign"
    ELSE "owned"

(* ------------------------- save_conversation -------------------------- *)
\* Mutant: the title is derived only when it is None, an empty title is kept.
stamp_title_none_only(conversation, now) ==
    [conversation EXCEPT
       !.title = IF conversation.title = None /\ conversation.messages # <<>>
                 THEN Some(generate_title(conversation.messages[1].content))
                 ELSE conversation.title,
       !.created_at = IF Truthy(conversation.created_at)
                      THEN conversation.created_at ELSE Some(now),
       !.updated_at = Some(now)]

\* Mutant: an updated_at sent by the caller is kept.
stamp_keeps_updated_at(conversation, now) ==
    [conversation EXCEPT
       !.title = IF ~Truthy(conversation.title) /\ conversation.messages # <<>>
                 THEN Some(generate_title(conversation.messages[1].content))
                 ELSE conversation.title,
       !.created_at = IF Truthy(conversation.created_at)
                      THEN conversation.created_at ELSE Some(now),
       !.updated_at = IF Truthy(conversation.updated_at)
                      THEN conversation.updated_at ELSE Some(now)]

\* Lines 127-135: the title derived when none is given, the timestamps.
stamp(conversation, now) ==
    [conversation EXCEPT
       !.title = IF ~Truthy(conversation.title) /\ conversation.messages # <<>>
                 THEN Some(generate_title(conversation.messages[1].content))
                 ELSE conversation.title,
       !.created_at = IF Truthy(conversation.created_at)
                      THEN conversation.created_at ELSE Some(now),
       !.updated_at = Some(now)]

\* Mutant: the payload stored without the title.
save_payload_untitled(conversation) ==
    [id |-> conversation.id,
     title |-> None,
     messages |-> dicts(conversation.messages),
     user_id |-> conversation.user_id,
     created_at |-> conversation.created_at[1],
     updated_at |-> conversation.updated_at[1]]

\* Lines 148-155: the payload of the point.
save_payload(conversation) ==
    [id |-> conversation.id,
     title |-> conversation.title,
     messages |-> dicts(conversation.messages),
     user_id |-> conversation.user_id,
     created_at |-> conversation.created_at[1],
     updated_at |-> conversation.updated_at[1]]

\* Lines 164-171: the returned dict.
save_return(conversation) ==
    [id |-> conversation.id,
     title |-> conversation.title,
     messages |-> dicts(conversation.messages),
     user_id |-> conversation.user_id,
     created_at |-> conversation.created_at[1],
     updated_at |-> conversation.updated_at[1]]

save_conversation_result(coll, now, conversation, fail) ==
    LET req == Request("save", conversation.user_id, conversation.id,
                      [updated_at |-> conversation.updated_at])
        c == stamp(conversation, now)
        point == PointStruct(c.id, save_payload(c))
    IN IF fail
       THEN Result(coll, Raised(Request("save", "", 0, <<>>),
                                except_Exception("Error saving conversation: ", StoreError),
                                "store_failure", "n/a", 1))
       ELSE Result(upsert(coll, point), Returned(req, save_return(c), "n/a", 1))

(* ------------------------- get_conversations -------------------------- *)
\* Lines 188-191: the payloads of the points of that user, in scan order.
RECURSIVE user_conversations(_, _)
user_conversations(points, user_id) ==
    IF points = <<>> THEN <<>>
    ELSE (IF points[1].payload.user_id = user_id THEN <<points[1].payload>> ELSE <<>>)
         \o user_conversations(Tail(points), user_id)

\* list.sort(key=updated_at, reverse=True): stable, greatest key first.
RECURSIVE insert_reverse(_, _)
insert_reverse(sorted, x) ==
    IF sorted = <<>> THEN <<x>>
    ELSE IF StrLess(sorted[1].updated_at, x.updated_at) THEN <<x>> \o sorted
    ELSE <<sorted[1]>> \o insert_reverse(Tail(sorted), x)

\* Mutant: the sort left out, the scan order kept.
sort_skipped(xs) == xs

RECURSIVE sort_reverse(_)
sort_reverse(xs) ==
    IF xs = <<>> THEN <<>>
    ELSE insert_reverse(sort_reverse(SubSeq(xs, 1, Len(xs) - 1)), xs[Len(xs)])

get_conversations_result(coll, user_id, limit, points, fail) ==
    LET req == Request("list", user_id, 0, [limit |-> limit, points |-> points])
    IN IF fail
       THEN Result(coll, Raised(Request("list", "", 0, <<>>),
                                except_Exception("Error getting conversations: ", StoreError),
                                "store_failure", "n/a", 0))
       ELSE Result(coll, Returned(req, sort_reverse(user_conversations(points, user_id)),
                                  "n/a", 0))

(* -------------------------- get_conversation -------------------------- *)
get_conversation_result(coll, user_id, conversation_id, fail) ==
    LET req == Request("get", user_id, conversation_id, <<>>)
        point == retrieve(coll, conversation_id)
    IN IF fail
       THEN Result(coll, Raised(Request("get", "", 0, <<>>),
                                except_Exception("Error getting conversation: ", StoreError),
                                "store_failure", "n/a", 0))
       ELSE IF ownership_fails(point, user_id)
       THEN Result(coll, Raised(req, except_Exception("Error getting conversation: ", NotFound),
                                "not_found", Found(point, user_id), 0))
       ELSE Result(coll, Returned(req, point[1].payload, "owned", 0))

(* ------------------------- update_conversation ------------------------ *)
\* Lines 225-232: the read and the ownership check; <<>> when they pass.
update_check(coll, user_id, conversation_id, update, fail) ==
    LET req == Request("update", "", 0, <<>>)
        point == retrieve(coll, conversation_id)
    IN IF fail
       THEN <<Raised(req, except_Exception("Error updating conversation: ", StoreError),
                     "store_failure", "n/a", 0)>>
       ELSE IF ownership_fails(point, user_id)
       THEN <<Raised(req, except_Exception("Error updating conversation: ", NotFound),
                     "not_found", Found(point, user_id), 0)>>
       ELSE <<>>

\* Mutant: the merge also restamps created_at.
update_merge_restamps(existing, update, now) ==
    [existing EXCEPT !.messages = dicts(update.messages), !.updated_at = now,
                     !.created_at = now]

\* Mutant: the new messages appended to the stored ones.
update_merge_appends(existing, update, now) ==
    [existing EXCEPT !.messages = existing.messages \o dicts(update.messages),
                     !.updated_at = now]

\* Lines 237-241: {**existing, "messages": ..., "updated_at": now}.
\* Mutant: the merged record is built from the id and the new fields only.
update_merge_new_fields_only(existing, update, now) ==
    [id |-> existing.id, messages |-> dicts(update.messages), updated_at |-> now]

update_merge(existing, update, now) ==
    [existing EXCEPT !.messages = dicts(update.messages), !.updated_at = now]

\* Mutant: the point is written although the request answers with the error.
update_write_partial(coll, user_id, conversation_id, update, updated_conversation, fail) ==
    LET req == Request("update", user_id, conversation_id, update)
        new_point == PointStruct(conversation_id, updated_conversation)
    IN IF fail
       THEN Result(upsert(coll, new_point),
                   Raised(Request("update", "", 0, <<>>),
                          except_Exception("Error updating conversation: ", StoreError),
                          "store_failure", "owned", 1))
       ELSE Result(upsert(coll, new_point), Returned(req, updated_conversation, "owned", 1))

\* Lines 247-260: the write and the answer.
update_write(coll, user_id, conversation_id, update, updated_conversation, fail) ==
    LET req == Request("update", user_id, conversation_id, update)
        new_point == PointStruct(conversation_id, updated_conversation)
    IN IF fail
       THEN Result(coll, Raised(Request("update", "", 0, <<>>),
                                except_Exception("Error updating conversation: ", StoreError),
                                "store_failure", "owned", 1))
       ELSE Result(upsert(coll, new_point), Returned(req, updated_conversation, "owned", 1))

update_conversation_result(coll, now, user_id, conversation_id, update, failRead, failWrite) ==
    LET early == update_check(coll, user_id, conversation_id, update, failRead)
    IN IF early # <<>> THEN Result(coll, early[1])
       ELSE update_write(coll, user_id, conversation_id, update,
                         update_merge(retrieve(coll, conversation_id)[1].payload, update, now),
                         failWrite)

(* ------------------------- delete_conversation ------------------------ *)
delete_check(coll, user_id, conversation_id, fail) ==
    LET req == Request("delete", "", 0, <<>>)
        point == retrieve(coll, conversation_id)
    IN IF fail
       THEN <<Raised(req, except_Exception("Error deleting conversation: ", StoreError),
                     "store_failure", "n/a", 0)>>
       ELSE IF ownership_fails(point, user_id)
       THEN <<Raised(req, except_Exception("Error deleting conversation: ", NotFound),
                     "not_found", Found(point, user_id), 0)>>
       ELSE <<>>

delete_write(coll, user_id, conversation_id, fail) ==
    LET req == Request("delete", user_id, conversation_id, <<>>)
    IN IF fail
       THEN Result(coll, Raised(Request("delete", "", 0, <<>>),
                                except_Exception("Error deleting conversation: ", StoreError),
                                "store_failure", "owned", 1))
       ELSE Result(delete(coll, conversation_id),
                   Returned(req, [message |-> "Conversation deleted successfully"], "owned", 1))

\* Mutant: the point is deleted before the ownership check is looked at.
delete_conversation_result_deletes_first(coll, user_id, conversation_id, failRead, failWrite) ==
    LET early == delete_check(coll, user_id, conversation_id, failRead)
    IN IF early # <<>> THEN Result(delete(coll, conversation_id), early[1])
       ELSE delete_write(coll, user_id, conversation_id, failWrite)

delete_conversation_result(coll, user_id, conversation_id, failRead, failWrite) ==
    LET early == delete_check(coll, user_id, conversation_id, failRead)
    IN IF early # <<>> THEN Result(coll, early[1])
       ELSE delete_write(coll, user_id, conversation_id, failWrite)

(* ------------------------------ requests ------------------------------ *)
CallerStamp == <<2020>>

Titles == {None, Some(<<"T">>)}
SaveMessages == {<<MsgA>>}
UpdateMessages == {<<MsgA>>, <<MsgB, MsgA>>}

Conversations ==
    [id : Ids, title : Titles, messages : SaveMessages, user_id : Users,
     created_at : {None, Some(CallerStamp)}, updated_at : {None, Some(CallerStamp)}]

Updates == [messages : UpdateMessages]

\* Which store call of a request raises, if any.
Faults == {"none", "read", "write"}

(* --------------------- one server process: Spec ----------------------- *)
NoWrite == [kind |-> "none", id |-> 0, returned |-> <<>>]

\* The latest successful write after a request answered r.
Written(prev, r) ==
    IF r.status_code # 200 THEN prev
    ELSE IF r.req.op = "save" THEN [kind |-> "create", id |-> r.req.id, returned |-> r.body]
    ELSE IF r.req.op = "delete" THEN [kind |-> "delete", id |-> r.req.id, returned |-> <<>>]
    ELSE IF r.req.op = "update" THEN [kind |-> "update", id |-> 0, returned |-> <<>>]
    ELSE prev

Init ==
    /\ collection = Empty
    /\ clock = 999999
    /\ resp = [w \in Workers |-> NoResponse]
    /\ pc = [w \in Workers |-> "idle"]
    /\ loc = [w \in Workers |-> <<>>]
    /\ last_write = NoWrite
    /\ baseline = Empty

Answer(w, r) ==
    /\ collection' = r.collection
    /\ resp' = [resp EXCEPT ![w] = r.resp]
    /\ last_write' = Written(last_write, r.resp)
    /\ UNCHANGED <<clock, pc, loc, baseline>>

Tick ==
    /\ clock < 999999 + MaxTicks
    /\ clock' = clock + 1
    /\ UNCHANGED <<collection, resp, pc, loc, last_write, baseline>>

save_conversation(w) ==
    \E conversation \in Conversations, fail \in BOOLEAN :
        Answer(w, save_conversation_result(collection, isoformat(clock), conversation, fail))

get_conversations(w) ==
    \E user_id \in Users, limit \in Limits, fail \in BOOLEAN :
        \E points \in scroll(collection, limit) :
            Answer(w, get_conversations_result(collection, user_id, limit, points, fail))

get_conversation(w) ==
    \E user_id \in Users, conversation_id \in Ids, fail \in BOOLEAN :
        Answer(w, get_conversation_result(collection, user_id, conversation_id, fail))

update_conversation(w) ==
    \E user_id \in Users, conversation_id \in Ids, update \in Updates, fault \in Faults :
        Answer(w, update_conversation_result(collection, isoformat(clock), user_id,
                                             conversation_id, update,
                                             fault = "read", fault = "write"))

delete_conversation(w) ==
    \E user_id \in Users, conversation_id \in Ids, fault \in Faults :
        Answer(w, delete_conversation_result(collection, user_id, conversation_id,
                                             fault = "read", fault = "write"))

Next ==
    \/ Tick
    \/ save_conversation(1)
    \/ get_conversations(1)
    \/ get_conversation(1)
    \/ update_conversation(1)
    \/ delete_conversation(1)

Spec == Init /\ [][Next]_vars

(* ---------------- two server processes: SpecTwoUpdates ---------------- *)
\* Two processes of the service share the collection; each handles one
\* update_conversation request.  The read (lines 225-232) and the write
\* (lines 237-260) are separate steps; `now` is read between them.
InitTwoUpdates ==
    /\ \E conversation \in Conversations :
         collection = save_conversation_result(Empty, isoformat(999999),
                                               conversation, FALSE).collection
    /\ clock = 999999
    /\ resp = [w \in Workers |-> NoResponse]
    /\ pc = [w \in Workers |-> "idle"]
    /\ loc = [w \in Workers |-> <<>>]
    /\ last_write = NoWrite
    /\ baseline = collection

update_retrieve(w) ==
    /\ pc[w] = "idle"
    /\ \E user_id \in Users, conversation_id \in Ids, update \in Updates, fail \in BOOLEAN :
         LET early == update_check(collection, user_id, conversation_id, update, fail)
             request == [user_id |-> user_id, conversation_id |-> conversation_id,
                         update |-> update]
         IN IF early # <<>>
            THEN /\ resp' = [resp EXCEPT ![w] = early[1]]
                 /\ pc' = [pc EXCEPT ![w] = "done"]
                 /\ loc' = [loc EXCEPT ![w] = [request |-> request, existing |-> <<>>,
                                               read_at |-> clock, stale |-> FALSE]]
            ELSE /\ resp' = resp
                 /\ pc' = [pc EXCEPT ![w] = "upsert"]
                 /\ loc' = [loc EXCEPT ![w] =
                              [request |-> request,
                               existing |-> retrieve(collection, conversation_id),
                               read_at |-> clock, stale |-> FALSE]]
    /\ UNCHANGED <<collection, clock, last_write, baseline>>

update_upsert(w) ==
    /\ pc[w] = "upsert"
    /\ \E t \in loc[w].read_at..clock, fail \in BOOLEAN :
         LET request == loc[w].request
             r == update_write(collection, request.user_id, request.conversation_id,
                               request.update,
                               update_merge(loc[w].existing[1].payload, request.update,
                                            isoformat(t)),
                               fail)
         IN /\ collection' = r.collection
            /\ resp' = [resp EXCEPT ![w] = r.resp]
            /\ loc' = [loc EXCEPT ![w] =
                         [@ EXCEPT !.stale =
                            retrieve(collection, request.conversation_id) # loc[w].existing]]
    /\ pc' = [pc EXCEPT ![w] = "done"]
    /\ UNCHANGED <<clock, last_write, baseline>>

NextTwoUpdates ==
    \/ Tick
    \/ \E w \in Workers : update_retrieve(w)
    \/ \E w \in Workers : update_upsert(w)

SpecTwoUpdates == InitTwoUpdates /\ [][NextTwoUpdates]_vars

(* ------------------- one save request: SpecCreate --------------------- *)
\* One save_conversation request, with every shape of title and messages,
\* on a collection that is empty or holds one saved conversation.
WideTitles == {None, Some(<<>>), Some(<<"T">>)}
WideMessages == {<<>>, <<MsgA>>, <<MsgB, MsgA>>}

WideConversations ==
    [id : Ids, title : WideTitles, messages : WideMessages, user_id : Users,
     created_at : {None, Some(CallerStamp)}, updated_at : {None, Some(CallerStamp)}]

InitCreate ==
    /\ collection \in
         {Empty} \cup
         { save_conversation_result(Empty, isoformat(999999), c, FALSE).collection :
             c \in Conversations }
    /\ clock = 999999
    /\ resp = [w \in Workers |-> NoResponse]
    /\ pc = [w \in Workers |-> "idle"]
    /\ loc = [w \in Workers |-> <<>>]
    /\ last_write = NoWrite
    /\ baseline = collection

create(w) ==
    /\ pc[w] = "idle"
    /\ \E conversation \in WideConversations, fail \in BOOLEAN :
         LET r == save_conversation_result(collection, isoformat(clock), conversation, fail)
         IN /\ collection' = r.collection
            /\ resp' = [resp EXCEPT ![w] = r.resp]
            /\ loc' = [loc EXCEPT ![w] = [conversation |-> conversation, at |-> clock]]
    /\ pc' = [pc EXCEPT ![w] = "done"]
    /\ UNCHANGED <<clock, last_write, baseline>>

NextCreate ==
    \/ Tick
    \/ create(1)

SpecCreate == InitCreate /\ [][NextCreate]_vars

(* ------------------------------ claims -------------------------------- *)

\* C1: a get, update or delete request that ends at the ownership check (the
\* id is absent, or stored under another user_id) is answered with status 404.
NotFoundIs404 ==
    \A w \in Workers : resp[w].path = "not_found" => resp[w].status_code = 404

\* C2: while an id stays in the collection, no step changes its created_at.
CreatedAtSetOnce ==
    [][\A k \in (DOMAIN collection) \cap (DOMAIN collection') :
         collection'[k].payload.created_at = collection[k].payload.created_at]_vars

\* C3: a step that leaves an id in the collection leaves its user_id as it was.
OwnerNeverChanges ==
    [][\A k \in (DOMAIN collection) \cap (DOMAIN collection') :
         collection'[k].payload.user_id = collection[k].payload.user_id]_vars

SameOutcome(r1, r2) ==
    r1.status_code = r2.status_code /\ r1.detail = r2.detail

\* C4: for every user u and every id k stored under another user, get, update
\* and delete answer u exactly (status and message) as they would with k
\* removed from the collection; and every answer actually given at the
\* ownership check is the one given for an id that is absent.
OwnershipOpacity ==
    /\ \A u \in Users : \A k \in DOMAIN collection :
         collection[k].payload.user_id # u =>
           LET without == delete(collection, k)
               now == isoformat(clock)
           IN /\ SameOutcome(get_conversation_result(collection, u, k, FALSE).resp,
                             get_conversation_result(without, u, k, FALSE).resp)
              /\ \A update \in Updates :
                   SameOutcome(
                     update_conversation_result(collection, now, u, k, update, FALSE, FALSE).resp,
                     update_conversation_result(without, now, u, k, update, FALSE, FALSE).resp)
              /\ SameOutcome(delete_conversation_result(collection, u, k, FALSE, FALSE).resp,
                             delete_conversation_result(without, u, k, FALSE, FALSE).resp)
    /\ \A w \in Workers : \A u \in Users : \A k \in Ids :
         resp[w].found = "foreign" =>
           /\ resp[w].req.op = "get" =>
                SameOutcome(resp[w], get_conversation_result(Empty, u, k, FALSE).resp)
           /\ resp[w].req.op = "update" =>
                \A update \in Updates :
                  SameOutcome(resp[w],
                    update_conversation_result(Empty, isoformat(clock), u, k, update,
                                               FALSE, FALSE).resp)
           /\ resp[w].req.op = "delete" =>
                SameOutcome(resp[w], delete_conversation_result(Empty, u, k, FALSE, FALSE).resp)

\* C4 witness: a request for an id stored under another user has been answered.
ForeignRequestAnswered ==
    \E w \in Workers : resp[w].found = "foreign" /\ resp[w].req.op = "update"

\* C5: an update that returns leaves every other point alone, keeps the id,
\* title, created_at and user_id of its point, stores the request's messages
\* and the time of the request as updated_at, and returns the stored payload.
UpdateFrame ==
    [][(clock' = clock /\ resp'[1].req.op = "update" /\ resp'[1].status_code = 200) =>
         LET k == resp'[1].req.id
         IN /\ k \in DOMAIN collection
            /\ DOMAIN collection' = DOMAIN collection
            /\ \A j \in DOMAIN collection \ {k} : collection'[j] = collection[j]
            /\ collection'[k].id = k
            /\ collection'[k].payload.id = collection[k].payload.id
            /\ collection'[k].payload.title = collection[k].payload.title
            /\ collection'[k].payload.created_at = collection[k].payload.created_at
            /\ collection'[k].payload.user_id = collection[k].payload.user_id
            /\ collection'[k].payload.messages = dicts(resp'[1].req.arg.messages)
            /\ collection'[k].payload.updated_at = isoformat(clock)
            /\ resp'[1].body = collection'[k].payload]_vars

\* C5 witness: an update has returned a record whose messages and updated_at
\* are new while its created_at is from an earlier time.
UpdateReturned ==
    /\ resp[1].req.op = "update"
    /\ resp[1].status_code = 200
    /\ resp[1].body.messages = dicts(<<MsgB, MsgA>>)
    /\ resp[1].body.created_at # resp[1].body.updated_at
    /\ resp[1].body.updated_at = isoformat(clock)

\* C7: a get request for an id whose delete was the latest write is answered
\* with status 404, and the id is not in the collection.
DeleteThenGetOne ==
    \A w \in Workers :
      (resp[w].req.op = "get" /\ last_write.kind = "delete"
         /\ resp[w].req.id = last_write.id) =>
        (resp[w].status_code = 404 /\ last_write.id \notin DOMAIN collection)

RoundTripCase(w) ==
    /\ resp[w].req.op = "get"
    /\ last_write.kind = "create"
    /\ resp[w].req.id = last_write.id
    /\ resp[w].req.user_id = last_write.returned.user_id

\* C8: a get request, by the creating user, for an id whose save was the
\* latest write returns the record that save returned (id, title, messages,
\* user_id, created_at).
RoundTrip ==
    \A w \in Workers :
      RoundTripCase(w) =>
        /\ resp[w].status_code = 200
        /\ resp[w].path = "ok"
        /\ resp[w].body.id = last_write.returned.id
        /\ resp[w].body.title = last_write.returned.title
        /\ resp[w].body.messages = last_write.returned.messages
        /\ resp[w].body.user_id = last_write.returned.user_id
        /\ resp[w].body.created_at = last_write.returned.created_at

\* C8 witness: such a get request has returned.
RoundTripDone ==
    \E w \in Workers : RoundTripCase(w) /\ resp[w].status_code = 200

ListCase(w) == resp[w].req.op = "list" /\ resp[w].status_code = 200

\* C9: a returned list holds only payloads of the requested user_id, holds
\* the payload of each scanned point of that user exactly once and nothing
\* else, and is ordered by updated_at, greatest first.
ListFiltersAndSorts ==
    \A w \in Workers :
      ListCase(w) =>
        LET body == resp[w].body
            points == resp[w].req.arg.points
            u == resp[w].req.user_id
        IN /\ \A j \in 1..Len(body) : body[j].user_id = u
           /\ \A i \in 1..Len(points) :
                points[i].payload.user_id = u =>
                  Cardinality({j \in 1..Len(body) : body[j] = points[i].payload}) = 1
           /\ \A j \in 1..Len(body) : \E i \in 1..Len(points) : points[i].payload = body[j]
           /\ \A j \in 1..(Len(body) - 1) :
                ~StrLess(body[j].updated_at, body[j + 1].updated_at)

\* C9 witness: a list of two conversations was returned in an order other
\* than the scan's.
ListReordered ==
    \E w \in Workers :
      /\ ListCase(w)
      /\ Len(resp[w].body) = 2
      /\ StrLess(resp[w].body[2].updated_at, resp[w].body[1].updated_at)
      /\ resp[w].req.arg.points[1].payload = resp[w].body[2]

\* C10: a request issues at most one write call, and a request in which a
\* store call raises is answered with status 500 and leaves the collection
\* as it was.
NoPartialFailure ==
    [][clock' = clock =>
         /\ resp'[1].writes <= 1
         /\ resp'[1].path = "store_failure" =>
              (resp'[1].status_code = 500 /\ collection' = collection)]_vars

\* C10 witness: the write call of a request on a stored conversation raised.
WriteCallRaised ==
    /\ resp[1].path = "store_failure"
    /\ resp[1].writes = 1
    /\ resp[1].req.op = "update"
    /\ DOMAIN collection # {}

TwoUpdatesCase(k) ==
    /\ k \in DOMAIN baseline
    /\ \A w \in Workers :
         /\ pc[w] = "done"
         /\ loc[w].request.conversation_id = k
         /\ loc[w].request.user_id = baseline[k].payload.user_id
         /\ resp[w].path # "store_failure"

\* C6: when both processes have finished an update by the owner of the same
\* stored id, with no store call raising, both returned, and the stored
\* record has the messages of one of the two requests and the id, title,
\* created_at and user_id it had before.
TwoUpdates ==
    \A k \in Ids :
      TwoUpdatesCase(k) =>
        /\ \A w \in Workers : resp[w].status_code = 200
        /\ k \in DOMAIN collection
        /\ collection[k].id = k
        /\ \E w \in Workers :
             collection[k].payload.messages = dicts(loc[w].request.update.messages)
        /\ collection[k].payload.id = baseline[k].payload.id
        /\ collection[k].payload.title = baseline[k].payload.title
        /\ collection[k].payload.created_at = baseline[k].payload.created_at
        /\ collection[k].payload.user_id = baseline[k].payload.user_id

\* C6 witness: both finished, with different messages, and one of them wrote
\* over a record that had changed since it read it.
LostUpdate ==
    \E k \in Ids :
      /\ TwoUpdatesCase(k)
      /\ loc[1].request.update # loc[2].request.update
      /\ \E w \in Workers : loc[w].stale

StampedCase(op) ==
    resp[1].req.op = op /\ resp[1].status_code = 200

\* C11: a save or update that returns stores the time of the request as the
\* updated_at of its id, whatever updated_at the caller sent; and no step
\* that leaves an id in the collection makes its updated_at smaller.
UpdatedAtRefreshed ==
    [][/\ (clock' = clock /\ resp'[1].status_code = 200
             /\ resp'[1].req.op \in {"save", "update"}) =>
            /\ resp'[1].req.id \in DOMAIN collection'
            /\ collection'[resp'[1].req.id].payload.updated_at = isoformat(clock)
            /\ resp'[1].body.updated_at = isoformat(clock)
       /\ \A k \in (DOMAIN collection) \cap (DOMAIN collection') :
            ~StrLess(collection'[k].payload.updated_at,
                     collection[k].payload.updated_at)]_vars

\* C11 witness: a save whose caller sent an updated_at has returned after the
\* clock advanced, and the stored updated_at is the time of the save.
CallerUpdatedAtIgnored ==
    /\ StampedCase("save")
    /\ resp[1].req.arg.updated_at = Some(CallerStamp)
    /\ resp[1].body.updated_at = isoformat(clock)
    /\ resp[1].body.updated_at # CallerStamp
    /\ clock > 999999
    /\ collection[resp[1].req.id].payload.updated_at = isoformat(clock)

Created(w) == pc[w] = "done" /\ resp[w].req.op = "save" /\ resp[w].status_code = 200

FirstContentTitle(c) == Some(generate_title(c.messages[1].content))

\* C12: a save that returns stores the title derived from the first message
\* exactly when the request has no title (None) and has messages, and the
\* request's title in every other case.
TitleDerivedOnlyWhenNone ==
    Created(1) =>
      LET c == loc[1].conversation
          stored == collection[c.id].payload.title
      IN IF c.title = None /\ c.messages # <<>>
         THEN stored = FirstContentTitle(c)
         ELSE stored = c.title

\* C12 as amended: the title is derived exactly when the request's title is
\* None or the empty string and the request has messages; the request's
\* title is stored in every other case.
TitleDerivedWhenNoneOrEmpty ==
    Created(1) =>
      LET c == loc[1].conversation
          stored == collection[c.id].payload.title
      IN IF (c.title = None \/ c.title = Some(<<>>)) /\ c.messages # <<>>
         THEN stored = FirstContentTitle(c)
         ELSE stored = c.title

\* C12 witness: a save with an empty title and messages stored the derived
\* title, which is not the title of the request.
EmptyTitleDerived ==
    /\ Created(1)
    /\ loc[1].conversation.title = Some(<<>>)
    /\ loc[1].conversation.messages = <<MsgB, MsgA>>
    /\ collection[loc[1].conversation.id].payload.title = FirstContentTitle(loc[1].conversation)
    /\ collection[loc[1].conversation.id].payload.title # loc[1].conversation.title

OverwriteCase ==
    /\ pc[1] = "done"
    /\ loc[1].conversation.id \in DOMAIN baseline
    /\ resp[1].path # "store_failure"

\* C17: a save on an id that is present, under any user_id, returns, and
\* the point stored afterwards, like the returned record, is built from the
\* request and the time of the request alone.
CreateOverwrites ==
    OverwriteCase =>
      LET c == loc[1].conversation
          now == isoformat(loc[1].at)
          built == [id |-> c.id,
                    title |-> IF (c.title = None \/ c.title = Some(<<>>)) /\ c.messages # <<>>
                              THEN FirstContentTitle(c) ELSE c.title,
                    messages |-> dicts(c.messages),
                    user_id |-> c.user_id,
                    created_at |-> IF c.created_at = None THEN now ELSE c.created_at[1],
                    updated_at |-> now]
      IN /\ resp[1].status_code = 200
         /\ DOMAIN collection = DOMAIN baseline
         /\ collection[c.id] = PointStruct(c.id, built)
         /\ resp[1].body = built

\* C17 witness: a save by another user, at a later time and with other
\* messages, has replaced a stored conversation.
ForeignOverwrite ==
    /\ OverwriteCase
    /\ resp[1].status_code = 200
    /\ baseline[loc[1].conversation.id].payload.user_id # loc[1].conversation.user_id
    /\ baseline[loc[1].conversation.id].payload.messages # dicts(loc[1].conversation.messages)
    /\ loc[1].at > 999999

(* ------------------- generate_title alone: SpecTitle ------------------ *)
\* The first messages tried: every text of at most MaxStrLen characters
\* over a letter and one separator, the separator a space or a tab.
MaxStrLen == 13

RECURSIVE Texts(_)
Texts(n) ==
    IF n = 0 THEN {<<>>}
    ELSE LET shorter == Texts(n - 1)
         IN shorter \cup { Append(t, c) : t \in {x \in shorter : Len(x) = n - 1},
                                          c \in {"a", " "} }

FirstMessages ==
    { [i \in 1..Len(t) |-> IF t[i] = " " THEN sep ELSE t[i]] :
        t \in Texts(MaxStrLen), sep \in {" ", "\t"} }

InitTitle ==
    /\ collection = Empty
    /\ clock = 999999
    /\ resp = [w \in Workers |-> NoResponse]
    /\ pc = [w \in Workers |-> "idle"]
    /\ loc \in { [w \in Workers |-> IF w = 1 THEN [first_message |-> m] ELSE <<>>] :
                 m \in FirstMessages }
    /\ last_write = NoWrite
    /\ baseline = Empty

title(w) ==
    /\ pc[w] = "idle"
    /\ loc' = [loc EXCEPT ![w] = [first_message |-> loc[w].first_message,
                                  title |-> generate_title(loc[w].first_message)]]
    /\ pc' = [pc EXCEPT ![w] = "done"]
    /\ UNCHANGED <<collection, clock, resp, last_write, baseline>>

NextTitle == title(1)

SpecTitle == InitTitle /\ [][NextTitle]_vars

\* The tokens of a text, by position: a token starts at a non-whitespace
\* character that is first or follows whitespace, and runs to the last
\* non-whitespace character before the next whitespace or the end.
TokenStarts(s) ==
    {i \in 1..Len(s) : ~IsSpace(s[i]) /\ (i = 1 \/ IsSpace(s[i - 1]))}

TokenEnd(s, i) ==
    CHOOSE j \in i..Len(s) :
      /\ \A m \in i..j : ~IsSpace(s[m])
      /\ j = Len(s) \/ IsSpace(s[j + 1])

Token(s, k) ==
    LET starts == TokenStarts(s)
        i == CHOOSE x \in starts : Cardinality({y \in starts : y < x}) = k - 1
    IN SubSeq(s, i, TokenEnd(s, i))

RECURSIVE FirstTokens(_, _)
FirstTokens(s, k) ==
    IF k = 0 THEN <<>>
    ELSE IF k = 1 THEN Token(s, 1)
    ELSE FirstTokens(s, k - 1) \o <<" ">> \o Token(s, k)

\* C13: the title of a text of n whitespace-separated tokens is its first
\* min(6, n) tokens joined by single spaces, followed by "..." exactly when
\* n > 6; the title of an empty or all-whitespace text is the empty string.
TitleIsFirstSixTokens ==
    pc[1] = "done" =>
      LET s == loc[1].first_message
          n == Cardinality(TokenStarts(s))
      IN /\ loc[1].title =
              FirstTokens(s, Min(6, n)) \o (IF n > 6 THEN <<".", ".", ".">> ELSE <<>>)
         /\ (\A i \in 1..Len(s) : IsSpace(s[i])) => loc[1].title = <<>>

\* C13 witness: a text of seven tab-separated tokens got the title of its
\* first six tokens, space-separated, and the ellipsis.
SevenTokensTitled ==
    /\ pc[1] = "done"
    /\ Cardinality(TokenStarts(loc[1].first_message)) = 7
    /\ \E i \in 1..Len(loc[1].first_message) : loc[1].first_message[i] = "\t"
    /\ loc[1].title = <<"a", " ", "a", " ", "a", " ", "a", " ", "a", " ", "a", ".", ".", ".">>

(* ------------------- generate_vector alone: SpecVector ---------------- *)
\* Texts are sequences of code points here, so that ord(char) is the
\* character itself.  A JSON value is None, an int, a str, a list or a dict
\* (a sequence of <<key, value>> pairs in insertion order).
VectorSize == 1536
Scale == 255

JNone == [t |-> "None"]
JInt(n) == [t |-> "int", v |-> n]
JStr(codes) == [t |-> "str", v |-> codes]
JList(items) == [t |-> "list", v |-> items]
JDict(pairs) == [t |-> "dict", v |-> pairs]

\* The concatenation of parts[lo..hi].
RECURSIVE Concat(_, _, _)
Concat(parts, lo, hi) ==
    IF lo > hi THEN <<>>
    ELSE IF lo = hi THEN parts[lo]
    ELSE LET mid == (lo + hi) \div 2
         IN Concat(parts, lo, mid) \o Concat(parts, mid + 1, hi)

\* '{0:04x}'.format(n)
Hex(d) == IF d < 10 THEN 48 + d ELSE 87 + d

u_escape(n) ==
    <<92, 117, Hex(n \div 4096), Hex((n \div 256) % 16), Hex((n \div 16) % 16), Hex(n % 16)>>

\* Mutant: ensure_ascii=False, a character beyond ASCII is written as it is.
escape_char_raw(c) ==
    IF c = 34 THEN <<92, 34>>
    ELSE IF c = 92 THEN <<92, 92>>
    ELSE IF c = 10 THEN <<92, 110>>
    ELSE IF c = 13 THEN <<92, 114>>
    ELSE IF c = 9 THEN <<92, 116>>
    ELSE IF c = 8 THEN <<92, 98>>
    ELSE IF c = 12 THEN <<92, 102>>
    ELSE IF c < 32 THEN u_escape(c)
    ELSE <<c>>

\* json.dumps with ensure_ascii left at True: every character outside
\* ' '..'~' is escaped, a character beyond the BMP as a surrogate pair.
escape_char(c) ==
    IF c = 34 THEN <<92, 34>>
    ELSE IF c = 92 THEN <<92, 92>>
    ELSE IF c = 10 THEN <<92, 110>>
    ELSE IF c = 13 THEN <<92, 114>>
    ELSE IF c = 9 THEN <<92, 116>>
    ELSE IF c = 8 THEN <<92, 98>>
    ELSE IF c = 12 THEN <<92, 102>>
    ELSE IF c >= 32 /\ c <= 126 THEN <<c>>
    ELSE IF c < 65536 THEN u_escape(c)
    ELSE u_escape(55296 + (((c - 65536) \div 1024) % 1024))
           \o u_escape(56320 + ((c - 65536) % 1024))

encode_str(codes) ==
    <<34>> \o Concat([i \in 1..Len(codes) |-> escape_char(codes[i])], 1, Len(codes)) \o <<34>>

RECURSIVE digits(_)
digits(n) == IF n < 10 THEN <<48 + n>> ELSE digits(n \div 10) \o <<48 + (n % 10)>>

encode_int(n) == IF n < 0 THEN <<45>> \o digits(0 - n) ELSE digits(n)

\* sort_keys=True: the items of a dict ordered by key.
RECURSIVE insert_key(_, _)
insert_key(sorted, pair) ==
    IF sorted = <<>> THEN <<pair>>
    ELSE IF StrLess(pair[1], sorted[1][1]) THEN <<pair>> \o sorted
    ELSE <<sorted[1]>> \o insert_key(Tail(sorted), pair)

RECURSIVE sort_keys(_)
sort_keys(pairs) ==
    IF pairs = <<>> THEN <<>>
    ELSE insert_key(sort_keys(SubSeq(pairs, 1, Len(pairs) - 1)), pairs[Len(pairs)])

\* json.dumps(data, sort_keys=True), separators ", " and ": ".
RECURSIVE dumps(_)
dumps(x) ==
    IF x.t = "None" THEN <<110, 117, 108, 108>>
    ELSE IF x.t = "int" THEN encode_int(x.v)
    ELSE IF x.t = "str" THEN encode_str(x.v)
    ELSE IF x.t = "list"
    THEN <<91>>
         \o Concat([i \in 1..Len(x.v) |->
                      (IF i > 1 THEN <<44, 32>> ELSE <<>>) \o dumps(x.v[i])], 1, Len(x.v))
         \o <<93>>
    ELSE LET items == sort_keys(x.v)
         IN <<123>>
            \o Concat([i \in 1..Len(items) |->
                         (IF i > 1 THEN <<44, 32>> ELSE <<>>)
                         \o encode_str(items[i][1]) \o <<58, 32>> \o dumps(items[i][2])],
                      1, Len(items))
            \o <<125>>

\* An element of the vector is a quotient, kept as numerator and denominator:
\* 0.0 is 0/1 and ord(char) / 255.0 is ord(char)/255.
vector_of(text) ==
    [i \in 1..VectorSize |->
       IF i <= Len(text) THEN [num |-> text[i], den |-> Scale] ELSE [num |-> 0, den |-> 1]]

generate_vector(data) == vector_of(dumps(data))

\* The dicts encoded: the three fields given by save_conversation and the
\* six fields of a payload given by update_conversation.  The strings have
\* ASCII, Latin-1, BMP and astral characters, quotes, backslashes and control
\* characters, and some are longer than the vector.
LongLen == 1600

Key_id == <<105, 100>>
Key_title == <<116, 105, 116, 108, 101>>
Key_messages == <<109, 101, 115, 115, 97, 103, 101, 115>>
Key_user_id == <<117, 115, 101, 114, 95, 105, 100>>
Key_created_at == <<99, 114, 101, 97, 116, 101, 100, 95, 97, 116>>
Key_updated_at == <<117, 112, 100, 97, 116, 101, 100, 95, 97, 116>>
Key_role == <<114, 111, 108, 101>>
Key_content == <<99, 111, 110, 116, 101, 110, 116>>
Key_timestamp == <<116, 105, 109, 101, 115, 116, 97, 109, 112>>

VecStrings ==
    { <<>>, <<84>>, <<104, 233>>, <<8364>>, <<128512>>, <<34, 92>>,
      <<10, 13, 9, 8, 12>>, <<127, 1>>,
      [i \in 1..LongLen |-> 97], [i \in 1..LongLen |-> 233] }

VecMessage(id, content) ==
    JDict(<< <<Key_id, JInt(id)>>, <<Key_role, JStr(<<117>>)>>,
             <<Key_content, JStr(content)>>, <<Key_timestamp, JStr(<<50, 48, 50, 52>>)>> >>)

VecMessageLists ==
    { <<>>, <<VecMessage(1, <<104, 105>>)>>,
      <<VecMessage(0 - 7, <<8364, 34>>), VecMessage(42, <<>>)>> }

VecData ==
    { JDict(<< <<Key_title, ttl>>, <<Key_messages, JList(msgs)>>, <<Key_user_id, JStr(uid)>> >>) :
        ttl \in {JNone} \cup {JStr(x) : x \in VecStrings},
        msgs \in VecMessageLists, uid \in {<<117, 49>>, <<233>>} }
    \cup
    { JDict(<< <<Key_id, JInt(1)>>, <<Key_title, ttl>>, <<Key_messages, JList(msgs)>>,
               <<Key_user_id, JStr(uid)>>, <<Key_created_at, JStr(<<50, 48, 50, 48>>)>>,
               <<Key_updated_at, JStr(<<50, 48, 50, 52>>)>> >>) :
        ttl \in {JNone} \cup {JStr(x) : x \in VecStrings},
        msgs \in VecMessageLists, uid \in {<<117, 49>>, <<233>>} }

InitVector ==
    /\ collection = Empty
    /\ clock = 999999
    /\ resp = [w \in Workers |-> NoResponse]
    /\ pc = [w \in Workers |-> "idle"]
    /\ loc \in { [w \in Workers |-> IF w = 1 THEN [data |-> d] ELSE <<>>] : d \in VecData }
    /\ last_write = NoWrite
    /\ baseline = Empty

vector(w) ==
    /\ pc[w] = "idle"
    /\ loc' = [loc EXCEPT ![w] = [data |-> loc[w].data,
                                  text |-> dumps(loc[w].data),
                                  vector |-> generate_vector(loc[w].data)]]
    /\ pc' = [pc EXCEPT ![w] = "done"]
    /\ UNCHANGED <<collection, clock, resp, last_write, baseline>>

NextVector == vector(1)

SpecVector == InitVector /\ [][NextVector]_vars

\* C14: the vector of a record has exactly 1536 elements, each of them in
\* [0, 1]: the element at a position inside the serialized text is the code
\* of the character there over 255, with the code at most 255, and the
\* element at a position at or beyond the length of the text is 0.
VectorShape ==
    pc[1] = "done" =>
      /\ Len(loc[1].vector) = 1536
      /\ \A i \in 1..Len(loc[1].vector) :
           LET e == loc[1].vector[i]
           IN /\ e.den > 0 /\ 0 <= e.num /\ e.num <= e.den
              /\ IF i <= Len(loc[1].text)
                 THEN e.num = loc[1].text[i] /\ e.den = 255 /\ loc[1].text[i] <= 255
                 ELSE e.num = 0

\* C14 witness: a record whose title is a character beyond the BMP was
\* encoded; its text ends inside the vector with "}", and 0 follows.
NonAsciiEncoded ==
    /\ pc[1] = "done"
    /\ \E p \in 1..Len(loc[1].data.v) : loc[1].data.v[p] = <<Key_title, JStr(<<128512>>)>>
    /\ Len(loc[1].vector) = 1536
    /\ Len(loc[1].text) < 1536
    /\ loc[1].vector[Len(loc[1].text)] = [num |-> 125, den |-> 255]
    /\ loc[1].vector[Len(loc[1].text) + 1].num = 0

(* ------------- requests in two server processes: SpecRace ------------- *)
\* Two server processes on one collection.  save_conversation makes one
\* store call and is one step; update_conversation and delete_conversation
\* make two (retrieve, then upsert or delete) and the other process may run
\* between them.  A process that has answered takes its next request.
RaceConversations ==
    [id : Ids, title : {None}, messages : {<<MsgA>>}, user_id : Users,
     created_at : {None}, updated_at : {None}]

RaceUpdates == [messages : {<<MsgB, MsgA>>}]

race_save(w) ==
    /\ pc[w] = "idle"
    /\ \E conversation \in RaceConversations, fail \in BOOLEAN :
         LET r == save_conversation_result(collection, isoformat(clock), conversation, fail)
         IN /\ collection' = r.collection
            /\ resp' = [resp EXCEPT ![w] = r.resp]
            /\ last_write' = Written(last_write, r.resp)
    /\ pc' = [pc EXCEPT ![w] = "done"]
    /\ UNCHANGED <<clock, loc, baseline>>

race_update_retrieve(w) ==
    /\ pc[w] = "idle"
    /\ \E user_id \in Users, conversation_id \in Ids, update \in RaceUpdates, fail \in BOOLEAN :
         LET early == update_check(collection, user_id, conversation_id, update, fail)
         IN IF early # <<>>
            THEN /\ resp' = [resp EXCEPT ![w] = early[1]]
                 /\ pc' = [pc EXCEPT ![w] = "done"]
                 /\ loc' = loc
            ELSE /\ resp' = resp
                 /\ pc' = [pc EXCEPT ![w] = "upsert"]
                 /\ loc' = [loc EXCEPT ![w] =
                              [request |-> [user_id |-> user_id,
                                            conversation_id |-> conversation_id,
                                            update |-> update],
                               existing |-> retrieve(collection, conversation_id)]]
    /\ UNCHANGED <<collection, clock, last_write, baseline>>

race_update_upsert(w) ==
    /\ pc[w] = "upsert"
    /\ \E fail \in BOOLEAN :
         LET request == loc[w].request
             r == update_write(collection, request.user_id, request.conversation_id,
                               request.update,
                               update_merge(loc[w].existing[1].payload, request.update,
                                            isoformat(clock)),
                               fail)
         IN /\ collection' = r.collection
            /\ resp' = [resp EXCEPT ![w] = r.resp]
            /\ last_write' = Written(last_write, r.resp)
    /\ pc' = [pc EXCEPT ![w] = "done"]
    /\ loc' = [loc EXCEPT ![w] = <<>>]
    /\ UNCHANGED <<clock, baseline>>

race_delete_retrieve(w) ==
    /\ pc[w] = "idle"
    /\ \E user_id \in Users, conversation_id \in Ids, fail \in BOOLEAN :
         LET early == delete_check(collection, user_id, conversation_id, fail)
         IN IF early # <<>>
            THEN /\ resp' = [resp EXCEPT ![w] = early[1]]
                 /\ pc' = [pc EXCEPT ![w] = "done"]
                 /\ loc' = loc
            ELSE /\ resp' = resp
                 /\ pc' = [pc EXCEPT ![w] = "delete"]
                 /\ loc' = [loc EXCEPT ![w] =
                              [request |-> [user_id |-> user_id,
                                            conversation_id |-> conversation_id]]]
    /\ UNCHANGED <<collection, clock, last_write, baseline>>

race_delete_delete(w) ==
    /\ pc[w] = "delete"
    /\ \E fail \in BOOLEAN :
         LET request == loc[w].request
             r == delete_write(collection, request.user_id, request.conversation_id, fail)
         IN /\ collection' = r.collection
            /\ resp' = [resp EXCEPT ![w] = r.resp]
            /\ last_write' = Written(last_write, r.resp)
    /\ pc' = [pc EXCEPT ![w] = "done"]
    /\ loc' = [loc EXCEPT ![w] = <<>>]
    /\ UNCHANGED <<clock, baseline>>

race_next_request(w) ==
    /\ pc[w] = "done"
    /\ pc' = [pc EXCEPT ![w] = "idle"]
    /\ resp' = [resp EXCEPT ![w] = NoResponse]
    /\ UNCHANGED <<collection, clock, loc, last_write, baseline>>

NextRace ==
    \/ \E w \in Workers : race_save(w)
    \/ \E w \in Workers : race_update_retrieve(w)
    \/ \E w \in Workers : race_update_upsert(w)
    \/ \E w \in Workers : race_delete_retrieve(w)
    \/ \E w \in Workers : race_delete_delete(w)
    \/ \E w \in Workers : race_next_request(w)

SpecRace == Init /\ [][NextRace]_vars

\* C15: once a delete of k has succeeded, k stays out of the collection
\* until a save of k: the step after the delete, unless it is that save,
\* leaves k absent, also when it is the write of an update that read k
\* before the delete.
DeleteIsFinal ==
    [][(/\ last_write.kind = "delete"
        /\ ~(last_write'.kind = "create" /\ last_write'.id = last_write.id))
         => last_write.id \notin DOMAIN collection']_vars

\* C16: the write of an update or delete by a user that returns finds, at
\* the moment of the write, the point of its id stored under that user.
WriteOnlyWhenOwned ==
    [][\A w \in Workers :
         (/\ pc[w] \in {"upsert", "delete"}
          /\ pc'[w] = "done"
          /\ resp'[w].status_code = 200)
           => /\ loc[w].request.conversation_id \in DOMAIN collection
              /\ collection[loc[w].request.conversation_id].payload.user_id
                   = loc[w].request.user_id]_vars

\* C20: every stored point is stored under the id of its payload, and its
\* payload has the fields id, title, messages, user_id, created_at and
\* updated_at, whatever the interleaving of saves, updates and deletes.
PointsWellFormed ==
    \A k \in DOMAIN collection :
      /\ DOMAIN collection[k].payload =
           {"id", "title", "messages", "user_id", "created_at", "updated_at"}
      /\ collection[k].id = k
      /\ collection[k].payload.id = k

\* C20 witness: a delete and an update of the same id have both returned in
\* the two processes and the id is stored, as the update wrote it.
RewrittenAfterDelete ==
    /\ resp[1].status_code = 200 /\ resp[1].req.op = "update"
    /\ resp[2].status_code = 200 /\ resp[2].req.op = "delete"
    /\ resp[1].req.id = resp[2].req.id
    /\ resp[1].req.id \in DOMAIN collection
    /\ collection[resp[1].req.id].payload = resp[1].body
    /\ \E k \in DOMAIN collection : k # resp[1].req.id

\* C18: a get, a list, and an update or delete that stops at its ownership
\* check (the id absent or stored under another user) make no write call and
\* leave the collection, points and payloads, exactly as it was.
ReadsDoNotWrite ==
    [][(/\ clock' = clock
        /\ \/ resp'[1].req.op \in {"get", "list"}
           \/ resp'[1].req.op \in {"update", "delete"} /\ resp'[1].path = "not_found")
         => (collection' = collection /\ resp'[1].writes = 0)]_vars

\* C18 witness: a delete of an id stored under another user stopped at the
\* ownership check, and the id is stored as before.
ForeignDeleteRefused ==
    /\ resp[1].req.op = "delete"
    /\ resp[1].path = "not_found"
    /\ resp[1].found = "foreign"
    /\ resp[1].writes = 0
    /\ Cardinality(DOMAIN collection) = 2

====
